---- MODULE Spec2Model ----
(***************************************************************************)
(* ECGQualityChecker (src/ecg_quality/ECGQualityChecker.py): construction *)
(* of the checker, and one process_signal call as a pass of the sliding   *)
(* window over the signal followed by _calc_precise_scores.               *)
(*                                                                         *)
(* Scores, thresholds and sums are numerators over ScoreDen, so that the   *)
(* score 1.0 is ScoreDen.  A float of the output is a fraction             *)
(* [num, den] in lowest terms; 0/0 is NaN.  Arrays keep the source's       *)
(* 0-based positions: an array of length n is a function on 0..n-1.        *)
(* One model sample stands for one second of a 250 Hz signal.              *)
(***************************************************************************)
EXTENDS Integers, Sequences, FiniteSets, TLC

\* ---------------------------------------------------------------- bounds
\* longest signal handed to process_signal
MaxN == 5
\* resolution of scores and thresholds: k / ScoreDen
ScoreDen == 2

\* ------------------------------------------------------- program values
\* sample values and window_min_range, in one unit: a window is flat
\* (range 0 < 1) or its range equals window_min_range
Amplitudes == {0, 1}

MinRanges == {1}

SupportedRate == 250

RETURN_MODES == {"score", "three_value", "binary_clean", "binary_qrs"}

RETURN_TYPES == {"intervals", "full"}

\* utils.MODEL_PATH_DICT: the registry of models and, from tf_model, the
\* input length of each (2 s and 5 s windows)
MODEL_PATH_DICT == {"cnn2s", "cnn5s", "lstm2s", "oscnn2s"}

get_input_length(model) == IF model = "cnn5s" THEN 5 ELSE 2

Divisors(n) == {d \in 1..n : n % d = 0}

\* utils.get_stride_length: the stride ratio (in tenths of the window) is
\* resolved to the smallest divisor of the window length that is at least
\* one second (one sample here) and at least the requested length
get_stride_length(input_length, stride) ==
    LET req == (stride * input_length + 9) \div 10
        ok  == {d \in Divisors(input_length) : d >= 1 /\ d >= req}
    IN  CHOOSE d \in ok : \A e \in ok : d <= e

\* ------------------------------------------------------------- floats
Abs(x) == IF x < 0 THEN -x ELSE x

RECURSIVE GCD(_, _)
GCD(a, b) == IF b = 0 THEN a ELSE GCD(b, a % b)

NaN == [num |-> 0, den |-> 0]

Inf == [num |-> 1, den |-> 0]

\* the float p / q, q > 0
Frac(p, q) == LET g == GCD(Abs(p), q) IN [num |-> p \div g, den |-> q \div g]

Float(k) == Frac(k, 1)

\* x < t for a float x and a threshold numerator t; any comparison with
\* NaN is false
Less(x, t) == /\ x.den > 0
              /\ x.num * ScoreDen < t * x.den

\* ---------------------------------------------------------- thresholds
None == [kind |-> "none", val |-> <<>>]

AFloat(v) == [kind |-> "float", val |-> <<v>>]

AList(s) == [kind |-> "list", val |-> s]

InRange(t) == 0 <= t /\ t <= ScoreDen

\* below the range, its lower edge, inside, its upper edge, above it
ThresholdVals == {-1, 0, 1, ScoreDen, ScoreDen + 1}

ThresholdArgs ==
    {None} \cup {AFloat(v) : v \in ThresholdVals}
           \cup {AList(<<>>), AList(<<1, 1, 1>>)}
           \cup {AList(<<v>>) : v \in ThresholdVals}
           \cup {AList(<<v, w>>) : v \in ThresholdVals, w \in ThresholdVals}

\* utils.get_default_thresholds: the registry of defaults per (model, mode)
get_default_thresholds(model, return_mode) ==
    IF return_mode = "score" THEN {None}
    ELSE IF return_mode = "three_value"
         THEN {AList(<<v, w>>) : v \in {t \in ThresholdVals : InRange(t)},
                                 w \in {t \in ThresholdVals : InRange(t)}}
         ELSE {AList(<<v>>) : v \in {t \in ThresholdVals : InRange(t)}}

\* the list left as given
SortTwoUnsorted(s) == s

\* np.sort of a two element list
SortTwo(s) == IF s[1] <= s[2] THEN s ELSE <<s[2], s[1]>>

\* lines 107-122: the outcome for thresholds th (after the default lookup)
CheckThresholds(return_mode, th) ==
    IF return_mode = "score"
    THEN IF th # None
         THEN [err |-> "InvalidThresholds", thresholds |-> th]
         ELSE [err |-> "ok", thresholds |-> th]
    ELSE IF return_mode \in {"binary_clean", "binary_qrs"}
    THEN LET t == IF th.kind = "float" THEN AList(th.val) ELSE th
         IN  IF t.kind = "none"
             THEN [err |-> "TypeError", thresholds |-> t]
             ELSE IF Len(t.val) # 1
             THEN [err |-> "InvalidThresholds", thresholds |-> t]
             ELSE IF ~InRange(t.val[1])
             THEN [err |-> "InvalidThresholds", thresholds |-> t]
             ELSE [err |-> "ok", thresholds |-> t]
    ELSE IF th.kind # "list"
         THEN [err |-> "TypeError", thresholds |-> th]
         ELSE IF Len(th.val) # 2
         THEN [err |-> "InvalidThresholds", thresholds |-> th]
         ELSE IF ~InRange(th.val[1]) \/ ~InRange(th.val[2])
         THEN [err |-> "InvalidThresholds", thresholds |-> th]
         ELSE [err |-> "ok", thresholds |-> AList(SortTwo(th.val))]

\* ------------------------------------------------------------ arguments
ModelArgs == MODEL_PATH_DICT \cup {"unknown"}

\* stride ratios in tenths: -0.5, 0.0, 0.5, 1.0
StrideArgs == {-5, 0, 5, 10}

Args ==
    [model : ModelArgs, stride : StrideArgs,
     return_mode : RETURN_MODES \cup {"other"},
     thresholds : ThresholdArgs,
     return_type : RETURN_TYPES \cup {"other"},
     sampling_rate : {SupportedRate, 500},
     clean_data : BOOLEAN, check_window_range : BOOLEAN,
     window_min_range : MinRanges]

NoArgs == [model |-> "-"]

NoCfg == [input_length |-> 0]

\* --------------------------------------------------------------- arrays
Arr(n, v) == [p \in 0..(n - 1) |-> v]

ALen(a) == Cardinality(DOMAIN a)

Min2(x, y) == IF x <= y THEN x ELSE y

\* a[lo:hi], numpy clipping hi to the length
Slice(a, lo, hi) == [i \in 0..(Min2(hi, ALen(a)) - lo - 1) |-> a[lo + i]]

Signals(n) == [0..(n - 1) -> Amplitudes]

\* nk.ecg_clean on a signal of n samples: some float signal of n samples
ecg_clean(n) == Signals(n)

\* the dtypes of a signal: np.zeros_like takes the dtype over, ecg_clean
\* returns floats
Dtypes(clean_data) == IF clean_data THEN {"float"} ELSE {"float", "int"}

\* what an array of dtype dt keeps of the value x (numerator over ScoreDen)
Store(dt, x) == IF dt = "int" THEN (x \div ScoreDen) * ScoreDen ELSE x

\* buf[lo:hi] = buf[lo:hi] + inc
AddSlice(buf, lo, hi, inc, dt) ==
    [p \in DOMAIN buf |->
        IF lo <= p /\ p < hi THEN Store(dt, buf[p] + inc) ELSE buf[p]]

VARIABLES pc, args, err, self, signal, dtype, win_start, output, win_count,
          calls, result

vars == <<pc, args, err, self, signal, dtype, win_start, output, win_count,
          calls, result>>

call_vars == <<signal, dtype, win_start, output, win_count, calls, result>>

Empty == Arr(0, 0)

NoCall == /\ signal = Empty
          /\ dtype = "float"
          /\ win_start = 0
          /\ output = Empty
          /\ win_count = Empty
          /\ calls = <<>>
          /\ result = Empty

Init == /\ pc = "new"
        /\ args \in Args
        /\ err = "ok"
        /\ self = NoCfg
        /\ NoCall

\* ------------------------------------------------------------- __init__
\* the checks of __init__ in the order of the source; "ok" or the first
\* failure, given the thresholds th that line 104 leaves
InitError(a, th) ==
    IF a.model \notin MODEL_PATH_DICT THEN "UnknownModel"
    ELSE IF a.return_mode \notin RETURN_MODES THEN "InvalidMode"
    ELSE IF CheckThresholds(a.return_mode, th).err # "ok"
         THEN CheckThresholds(a.return_mode, th).err
    ELSE IF a.return_type \notin RETURN_TYPES THEN "InvalidGranularity"
    ELSE IF a.sampling_rate # SupportedRate THEN "UnsupportedSamplingRate"
    ELSE IF a.stride < 0 THEN "InvalidStride"
    ELSE "ok"

NewChecker(a, th) ==
    [input_length |-> get_input_length(a.model),
     stride       |-> get_stride_length(get_input_length(a.model), a.stride),
     return_mode  |-> a.return_mode,
     return_type  |-> a.return_type,
     thresholds   |-> CheckThresholds(a.return_mode, th).thresholds,
     clean_data   |-> a.clean_data,
     check_window |-> a.check_window_range,
     min_window   |-> a.window_min_range]

Construct ==
    /\ pc = "new"
    /\ \E th \in (IF args.thresholds = None /\ args.model \in MODEL_PATH_DICT
                     /\ args.return_mode \in RETURN_MODES
                  THEN get_default_thresholds(args.model, args.return_mode)
                  ELSE {args.thresholds}) :
          /\ err' = InitError(args, th)
          /\ IF InitError(args, th) = "ok"
             THEN pc' = "idle" /\ self' = NewChecker(args, th)
             ELSE pc' = "failed" /\ self' = NoCfg
    /\ args' = NoArgs
    /\ UNCHANGED call_vars

\* ------------------------------------------------------- process_signal
\* the comparison with <= in place of <
_check_window_smaller_le(window_signal) ==
    LET vals    == {window_signal[i] : i \in DOMAIN window_signal}
        minimum == CHOOSE v \in vals : \A w \in vals : v <= w
        maximum == CHOOSE v \in vals : \A w \in vals : v >= w
        range   == maximum - minimum
    IN  range <= self.min_window

_check_window_smaller(window_signal) ==
    LET vals    == {window_signal[i] : i \in DOMAIN window_signal}
        minimum == CHOOSE v \in vals : \A w \in vals : v <= w
        maximum == CHOOSE v \in vals : \A w \in vals : v >= w
        range   == maximum - minimum
    IN  range < self.min_window

\* model.process_ecg: a score in [0, 1] that depends on the window only
process_ecg(window) ==
    LET seen == {calls[i].score : i \in {j \in 1..Len(calls) :
                     calls[j].classified /\ calls[j].window = window}}
    IN  IF seen = {} THEN 0..ScoreDen ELSE seen

\* the slice of the buffers that the window at win_start adds to
FullBounds(start) == <<start, start + self.input_length>>

\* the window added to its first interval only
IntervalBoundsFirst(start) ==
    <<start \div self.stride, (start \div self.stride) + 1>>

IntervalBounds(start) ==
    <<start \div self.stride, (start + self.input_length) \div self.stride>>

Bounds(return_type, start) ==
    IF return_type = "full" THEN FullBounds(start) ELSE IntervalBounds(start)

\* lengths and dtypes of the buffers: np.zeros_like(signal) against
\* np.zeros(len(signal) // stride)
FullLength(n) == n

\* one interval per scheduled window
IntervalLengthWindows(n) ==
    IF n < self.input_length THEN 0
    ELSE ((n - self.input_length) \div self.stride) + 1

IntervalLength(n) == n \div self.stride

BufferLength(return_type, n) ==
    IF return_type = "full" THEN FullLength(n) ELSE IntervalLength(n)

BufferDtype(return_type, dt) == IF return_type = "full" THEN dt ELSE "float"

\* range(0, len(signal), stride): windows cut short at the end of the signal
InRangeLoopPartial(start, n) == start < n

\* range(0, len(signal) - input_length + 1, stride) has a next element
InRangeLoop(start, n) == start < n - self.input_length + 1

Begin ==
    /\ pc = "idle"
    /\ \E n \in 0..MaxN : \E dt \in Dtypes(self.clean_data) :
       \E s \in (IF self.clean_data THEN ecg_clean(n) ELSE Signals(n)) :
          /\ signal' = s
          /\ dtype' = dt
          /\ output' = Arr(BufferLength(self.return_type, n), 0)
          /\ win_count' = Arr(BufferLength(self.return_type, n), 0)
    /\ win_start' = 0
    /\ calls' = <<>>
    /\ result' = Empty
    /\ pc' = "loop"
    /\ UNCHANGED <<args, err, self>>

\* one pass of the loop body on the buffers b for the window at start
Accumulate(return_type, b, start, score, dt) ==
    LET ab == Bounds(return_type, start)
    IN  [output    |-> AddSlice(b.output, ab[1], ab[2], score,
                                BufferDtype(return_type, dt)),
         win_count |-> AddSlice(b.win_count, ab[1], ab[2], 1, "float")]

Window ==
    /\ pc = "loop"
    /\ InRangeLoop(win_start, ALen(signal))
    /\ LET window == Slice(signal, win_start, win_start + self.input_length)
           small  == _check_window_smaller(window)
           b      == [output |-> output, win_count |-> win_count]
       IN  \E score \in (IF small THEN {ScoreDen} ELSE process_ecg(window)) :
             /\ output' =
                  Accumulate(self.return_type, b, win_start, score, dtype).output
             /\ win_count' =
                  Accumulate(self.return_type, b, win_start, score, dtype).win_count
             /\ calls' = Append(calls, [start |-> win_start, window |-> window,
                                        classified |-> ~small, score |-> score])
    /\ win_start' = win_start + self.stride
    /\ UNCHANGED <<pc, args, err, self, signal, dtype, result>>

\* ------------------------------------------------- _calc_precise_scores
\* np.divide(scores, win_counts) at one position
Divide(sum, count) ==
    IF count = 0 THEN (IF sum = 0 THEN NaN ELSE Inf)
    ELSE Frac(sum, count * ScoreDen)

_get_binary(x) == IF Less(x, self.thresholds.val[1]) THEN Float(1) ELSE Float(2)

_get_three_value(x) ==
    IF Less(x, self.thresholds.val[1]) THEN Float(1)
    ELSE IF Less(x, self.thresholds.val[2]) THEN Float(2)
    ELSE Float(3)

MapScore(x) ==
    IF self.return_mode = "score" THEN x
    ELSE IF self.return_mode \in {"binary_clean", "binary_qrs"}
    THEN _get_binary(x)
    ELSE _get_three_value(x)

_calc_precise_scores(scores, win_counts) ==
    [p \in DOMAIN scores |-> MapScore(Divide(scores[p], win_counts[p]))]

Finish ==
    /\ pc = "loop"
    /\ ~InRangeLoop(win_start, ALen(signal))
    /\ result' = _calc_precise_scores(output, win_count)
    /\ pc' = "done"
    /\ UNCHANGED <<args, err, self, signal, dtype, win_start, output,
                   win_count, calls>>

\* the call has returned; the checker is ready for the next signal
Return ==
    /\ pc = "done"
    /\ pc' = "idle"
    /\ signal' = Empty
    /\ dtype' = "float"
    /\ win_start' = 0
    /\ output' = Empty
    /\ win_count' = Empty
    /\ calls' = <<>>
    /\ result' = Empty
    /\ UNCHANGED <<args, err, self>>

Next == Construct \/ Begin \/ Window \/ Finish \/ Return

Spec == Init /\ [][Next]_vars

\* ----------------------------------------------- the other return_type
\* the buffers that a checker with return_type rt, otherwise the same, has
\* after the first k windows of this call (same signal, same classifier)
RECURSIVE ReplayBuffers(_, _)
ReplayBuffers(rt, k) ==
    IF k = 0
    THEN [output    |-> Arr(BufferLength(rt, ALen(signal)), 0),
          win_count |-> Arr(BufferLength(rt, ALen(signal)), 0)]
    ELSE Accumulate(rt, ReplayBuffers(rt, k - 1), calls[k].start,
                    calls[k].score, dtype)

ReplayResult(rt) ==
    _calc_precise_scores(ReplayBuffers(rt, Len(calls)).output,
                         ReplayBuffers(rt, Len(calls)).win_count)

\* ================================================================ claims
InCall == pc \in {"loop", "done"}

\* the window at start covers buffer position p, as the claims state it
CoversPos(start, p) ==
    IF self.return_type = "full"
    THEN start <= p /\ p < start + self.input_length
    ELSE /\ start \div self.stride <= p
         /\ p < (start + self.input_length) \div self.stride

Covering(k, p) == {i \in 1..k : CoversPos(calls[i].start, p)}

RECURSIVE SumScores(_, _)
SumScores(k, p) ==
    IF k = 0 THEN 0
    ELSE SumScores(k - 1, p)
         + (IF CoversPos(calls[k].start, p) THEN calls[k].score ELSE 0)

\* C1: process_signal returns exactly len(signal) values when return_type
\* is 'full' and exactly floor(len(signal) / stride) values when it is
\* 'intervals', also for a signal shorter than the window.
C1_OutputLength ==
    pc = "done" =>
        ALen(result) = (IF self.return_type = "full"
                        THEN ALen(signal)
                        ELSE ALen(signal) \div self.stride)

C1_Witness ==
    /\ pc = "done"
    /\ self.return_type = "intervals"
    /\ ALen(signal) < self.input_length
    /\ ALen(result) >= 1

\* C2: in every return mode a position whose contribution count is zero
\* yields the undefined value (NaN), never a category 1.0, 2.0 or 3.0; for
\* a signal shorter than the window the whole output is NaN.
C2_ZeroCountUndefined ==
    pc = "done" =>
        /\ \A p \in DOMAIN result : win_count[p] = 0 => result[p] = NaN
        /\ ALen(signal) < self.input_length =>
               \A p \in DOMAIN result : result[p] = NaN

\* C3: for a position with a defined mean m = sum / count, binary modes
\* give 1.0 if m < thresholds[0] and 2.0 otherwise; three_value, whose
\* stored thresholds are ascending, gives 1.0 if m < thresholds[0], 2.0 if
\* thresholds[0] <= m < thresholds[1] and 3.0 if m >= thresholds[1], so it
\* is 1.0 exactly when the cut at thresholds[0] gives 1.0 and 3.0 exactly
\* when the cut at thresholds[1] gives 2.0.
C3_ThresholdMapping ==
    (pc = "done" /\ self.return_mode # "score") =>
        \A p \in DOMAIN result :
            win_count[p] > 0 =>
                LET t     == self.thresholds.val
                    below(k) == output[p] < t[k] * win_count[p]
                IN  IF self.return_mode = "three_value"
                    THEN /\ t[1] <= t[2]
                         /\ below(1) => result[p] = Float(1)
                         /\ (~below(1) /\ below(2)) => result[p] = Float(2)
                         /\ ~below(2) => result[p] = Float(3)
                         /\ result[p] = Float(1) <=> below(1)
                         /\ result[p] = Float(3) <=> ~below(2)
                    ELSE result[p] = (IF below(1) THEN Float(1) ELSE Float(2))

C3_Witness ==
    /\ pc = "done"
    /\ self.return_mode = "three_value"
    /\ self.thresholds.val[1] < self.thresholds.val[2]
    /\ \E p, q, r \in DOMAIN result :
          /\ win_count[p] > 0 /\ win_count[q] > 0 /\ win_count[r] > 0
          /\ result[p] = Float(1)
          /\ result[q] = Float(2)
          /\ result[r] = Float(3)

\* (max - min) of the window is strictly less than r
RangeBelow(w, r) == \A i, j \in DOMAIN w : w[i] - w[j] < r

OnlySmallWindows(p) ==
    /\ win_count[p] > 0
    /\ \A i \in Covering(Len(calls), p) : ~calls[i].classified

C5_CheckDisabled ==
    (InCall /\ ~self.check_window) =>
        \A i \in 1..Len(calls) : calls[i].classified

\* C6: for two checkers that differ only in return_type, on the same signal
\* (the stride divides the window length, the classifier is deterministic),
\* the 'intervals' value at i equals the 'full' value at every position p
\* with i*S <= p < (i+1)*S, for every i < floor(N / S).
C6_FullIntervalsAgree ==
    (pc = "done" /\ self.input_length % self.stride = 0) =>
        LET other == IF self.return_type = "full" THEN "intervals" ELSE "full"
            full  == IF self.return_type = "full"
                     THEN result ELSE ReplayResult(other)
            ivals == IF self.return_type = "intervals"
                     THEN result ELSE ReplayResult(other)
        IN  \A i \in 0..((ALen(signal) \div self.stride) - 1) :
               /\ i \in DOMAIN ivals
               /\ \A p \in (i * self.stride)..((i + 1) * self.stride - 1) :
                     p \in DOMAIN full /\ ivals[i] = full[p]

\* the thresholds are given as a list, or as one float in a binary mode,
\* and every other argument is valid
ThresholdsGiven(a) ==
    /\ a.model \in MODEL_PATH_DICT
    /\ a.return_mode \in RETURN_MODES
    /\ a.return_type \in RETURN_TYPES
    /\ a.sampling_rate = SupportedRate
    /\ a.stride >= 0
    /\ \/ a.thresholds.kind = "list"
       \/ a.thresholds.kind = "float"
          /\ a.return_mode \in {"binary_clean", "binary_qrs"}

ThresholdsAllowed(a) ==
    IF a.return_mode = "score" THEN a.thresholds.val = <<>>
    ELSE IF a.return_mode = "three_value"
    THEN /\ Len(a.thresholds.val) = 2
         /\ InRange(a.thresholds.val[1])
         /\ InRange(a.thresholds.val[2])
    ELSE /\ Len(a.thresholds.val) = 1
         /\ InRange(a.thresholds.val[1])

\* C7: for explicitly supplied thresholds, construction succeeds in score
\* mode with an empty list, in binary modes only with exactly one value in
\* [0,1], in three_value mode only with exactly two values in [0,1], which
\* it stores ascending; everything else fails with InvalidThresholds and
\* produces no checker.
C7_ThresholdRules ==
    [][(pc = "new" /\ ThresholdsGiven(args)) =>
          IF ThresholdsAllowed(args)
          THEN /\ pc' = "idle"
               /\ err' = "ok"
               /\ args.return_mode = "three_value" =>
                     /\ self'.thresholds.val[1] <= self'.thresholds.val[2]
                     /\ {self'.thresholds.val[1], self'.thresholds.val[2]}
                          = {args.thresholds.val[1], args.thresholds.val[2]}
          ELSE /\ pc' = "failed"
               /\ err' = "InvalidThresholds"
               /\ self' = NoCfg]_vars

\* C8: the windows evaluated in one call are exactly those starting at
\* 0, S, 2S, ... with start + L <= N, once each and in increasing order;
\* every scored window has L samples, and with N < L none is evaluated.
C8_WindowSchedule ==
    InCall =>
        /\ \A i \in 1..Len(calls) :
              /\ calls[i].start = (i - 1) * self.stride
              /\ calls[i].start + self.input_length <= ALen(signal)
              /\ ALen(calls[i].window) = self.input_length
        /\ pc = "done" =>
              Len(calls) = Cardinality({k \in 0..ALen(signal) :
                  k * self.stride + self.input_length <= ALen(signal)})
        /\ ALen(signal) < self.input_length => calls = <<>>

C8_Witness ==
    /\ pc = "done"
    /\ Len(calls) >= 2
    /\ self.stride > 1
    /\ (ALen(signal) - self.input_length) % self.stride # 0

C9_Contributions ==
    InCall =>
        \A p \in DOMAIN output :
            /\ win_count[p] = Cardinality(Covering(Len(calls), p))
            /\ output[p] = SumScores(Len(calls), p)
            /\ self.input_length % self.stride = 0 =>
                  win_count[p] <= self.input_length \div self.stride

\* C9: during the accumulation pass the counts never decrease, and after
\* the first k windows the count of every position is the number of those
\* windows that cover it and its sum is the sum of exactly their scores,
\* so no count exceeds L / S.
C9_Accumulation ==
    [][/\ pc = "loop" =>
             \A p \in DOMAIN win_count : win_count'[p] >= win_count[p]
       /\ C9_Contributions']_vars

\* C10: with N >= L and S dividing L, in 'full' mode the positions with a
\* zero count are exactly the p >= S*floor((N-L)/S) + L, which exist iff
\* (N - L) is not a multiple of S; in 'intervals' mode each of the
\* floor(N / S) intervals has a count of at least 1 and a defined output.
C10_ZeroCounts ==
    (/\ pc = "done"
     /\ ALen(signal) >= self.input_length
     /\ self.input_length % self.stride = 0) =>
        LET N == ALen(signal)
            L == self.input_length
            S == self.stride
        IN  IF self.return_type = "full"
            THEN /\ \A p \in 0..(N - 1) :
                       win_count[p] = 0 <=> p >= S * ((N - L) \div S) + L
                 /\ (\E p \in 0..(N - 1) : win_count[p] = 0)
                       <=> (N - L) % S # 0
            ELSE /\ DOMAIN win_count = 0..((N \div S) - 1)
                 /\ \A i \in 0..((N \div S) - 1) :
                       win_count[i] >= 1 /\ result[i] # NaN

C10_Witness ==
    /\ pc = "done"
    /\ self.return_type = "full"
    /\ self.stride > 1
    /\ Len(calls) >= 2
    /\ win_count[ALen(signal) - 1] = 0
    /\ win_count[ALen(signal) - 2] > 0
====
